---- MODULE Spec2Model ----
(***************************************************************************)
(* OAuth2 credential lifecycle of the ReviewBoard MCP server.              *)
(*                                                                         *)
(*   Spec        the Token Manager (OAuth2TokenManager) under concurrent    *)
(*               callers of getValidAccessToken() on one event loop.       *)
(*   RunnerSpec  the Authorization Flow Runner (oauth-setup.ts main()).    *)
(*   ServerSpec  the server process: main(), getClient() and the CallTool  *)
(*               handler with the gateway's request interceptor.           *)
(*   JiraSpec    the Jira server's JiraClient: instance registry, client   *)
(*               cache and the operations that look an instance up.        *)
(*                                                                         *)
(* JavaScript values are tagged records [k, v] so that undefined, NaN and  *)
(* null behave as they do in the program.                                  *)
(***************************************************************************)
EXTENDS Integers, Sequences, FiniteSets, TLC

\* ---------------------------------------------------------------- bounds
NumCallers == 2        \* concurrent callers of getValidAccessToken()
MaxRequests == 2       \* refresh requests sent in one behaviour
MaxTicks == 1          \* advances of the clock
TickMs == 300000       \* milliseconds per advance of the clock
T0 == 1000             \* Date.now() when the manager is constructed
ShortLife == 60        \* an expires_in (seconds) inside the 5 minute buffer
LongLife == 600        \* an expires_in (seconds) beyond the 5 minute buffer
MaxConns == 2          \* connections the callback listener accepts
MaxToolCalls == 2      \* tool calls the server process receives
MaxUrlLen == 3         \* parts of a Jira base URL after "https://"
MaxJiraOps == 2        \* operations started on the JiraClient

\* ------------------------------------------------------ program constants
expiryBuffer == 300000

RefreshFailedMsg ==
  "Failed to refresh access token. You may need to run the OAuth setup again: npm run oauth-setup"

\* ------------------------------------------------------ JavaScript values
Num(n) == [k |-> "number", v |-> n]
Str(n) == [k |-> "string", v |-> n]
Undefined == [k |-> "undefined", v |-> 0]
NaN == [k |-> "NaN", v |-> 0]
Null == [k |-> "null", v |-> 0]
Absent == [k |-> "absent", v |-> 0]

\* ToNumber(x) of the language, for the kinds that occur
ToNumber(x) ==
  CASE x.k = "number" -> x
    [] x.k = "null" -> Num(0)
    [] OTHER -> NaN

\* a * b and a + b on numbers; NaN is contagious
JsMul(a, b) ==
  IF ToNumber(a).k = "NaN" \/ ToNumber(b).k = "NaN" THEN NaN
  ELSE Num(ToNumber(a).v * ToNumber(b).v)

JsAdd(a, b) ==
  IF ToNumber(a).k = "NaN" \/ ToNumber(b).k = "NaN" THEN NaN
  ELSE Num(ToNumber(a).v + ToNumber(b).v)

JsSub(a, b) ==
  IF ToNumber(a).k = "NaN" \/ ToNumber(b).k = "NaN" THEN NaN
  ELSE Num(ToNumber(a).v - ToNumber(b).v)

\* a >= b: false as soon as one side is NaN
JsGe(a, b) ==
  /\ ToNumber(a).k # "NaN"
  /\ ToNumber(b).k # "NaN"
  /\ ToNumber(a).v >= ToNumber(b).v

\* if (x) ...: undefined, null and NaN are falsy; the strings and numbers
\* modelled here are non-empty and non-zero unless the number is 0
Truthy(x) ==
  CASE x.k = "string" -> TRUE
    [] x.k = "number" -> x.v # 0
    [] OTHER -> FALSE

\* JSON.stringify of one property value: an undefined property is left out
\* of the object, NaN is written as null
ToJSON(x) ==
  CASE x.k = "undefined" -> Absent
    [] x.k = "NaN" -> Null
    [] OTHER -> x

\* JSON.parse of one property: a property that is not there reads undefined
FromJSON(x) == IF x.k = "absent" THEN Undefined ELSE x

\* JSON.stringify(this.config, null, 2): the content written to the file
JSONstringify(cfg) ==
  [access_token |-> ToJSON(cfg.access_token),
   refresh_token |-> ToJSON(cfg.refresh_token),
   token_type |-> ToJSON(cfg.token_type),
   expires_at |-> ToJSON(cfg.expires_at),
   client_id |-> cfg.client_id,
   client_secret |-> cfg.client_secret,
   reviewboard_url |-> cfg.reviewboard_url]

\* JSON.parse(configData) as OAuthConfig
JSONparse(f) ==
  [access_token |-> FromJSON(f.access_token),
   refresh_token |-> FromJSON(f.refresh_token),
   token_type |-> FromJSON(f.token_type),
   expires_at |-> FromJSON(f.expires_at),
   client_id |-> f.client_id,
   client_secret |-> f.client_secret,
   reviewboard_url |-> f.reviewboard_url]

\* ------------------------------------------------------------- the state
VARIABLES
  config,   \* OAuth2TokenManager.config (in memory)
  file,     \* content of oauth-config.json
  now,      \* Date.now()
  nreq,     \* refresh requests sent to the token endpoint so far
  origin,   \* per token field: the request whose response set it (0: load)
  tasks,    \* per caller: its position in getValidAccessToken()
  runner,   \* the setup script: main(), its listener and its promise
  srv,      \* the MCP server process: its client, its tool call in progress
  jira      \* the Jira server's JiraClient: registry, client cache, operation

Callers == 1..NumCallers

NoReq == [id |-> 0, url |-> "", grant_type |-> "", refresh_token |-> Undefined,
          client_id |-> "", client_secret |-> ""]
NoResp == [kind |-> "none", access_token |-> Undefined,
           refresh_token |-> Undefined, expires_in |-> Undefined]
NoResult == [kind |-> "none", value |-> Undefined, msg |-> ""]

IdleTask ==
  [pc |-> "idle", overlapped |-> FALSE, req |-> NoReq, resp |-> NoResp,
   saved |-> FALSE, result |-> NoResult]

\* the records the setup script can have written (oauth-setup.ts main);
\* Str(0) are the strings of that record, token_type's being "Bearer"
InitExpiries ==
  {Num(T0 - 1000), Num(T0 + expiryBuffer), Num(T0 + expiryBuffer + 1)}

InitRecords ==
  {[access_token |-> Str(0), refresh_token |-> Str(0), token_type |-> Str(0),
    expires_at |-> e, client_id |-> "cid", client_secret |-> "secret",
    reviewboard_url |-> "https://rb"] : e \in InitExpiries}

\* OAuth2TokenManager.loadConfig
loadConfig(f) == JSONparse(f)

\* OAuth2TokenManager.saveConfig: the new content of the file
saveConfig(cfg) == JSONstringify(cfg)

\* faulty variant: the comparison of the expiry test turned round
isExpiredInverted(cfg, t) ==
  JsGe(JsSub(cfg.expires_at, Num(expiryBuffer)), Num(t))

\* getValidAccessToken: Date.now() >= (this.config.expires_at - expiryBuffer)
isExpired(cfg, t) == JsGe(Num(t), JsSub(cfg.expires_at, Num(expiryBuffer)))

\* the request refreshAccessToken sends
RefreshRequest(cfg, id) ==
  [id |-> id,
   url |-> cfg.reviewboard_url \o "/oauth2/token/",
   grant_type |-> "refresh_token",
   refresh_token |-> cfg.refresh_token,
   client_id |-> cfg.client_id,
   client_secret |-> cfg.client_secret]

\* what the token endpoint can answer to request id: a transport error, a
\* non-2xx status, a 2xx whose body is JSON null, a 2xx with a token object
\* (refresh_token is optional), or a 2xx with an object that lacks
\* expires_in, or access_token and expires_in
Responses(id) ==
  {[kind |-> kd, access_token |-> Undefined, refresh_token |-> Undefined,
    expires_in |-> Undefined] : kd \in {"network_error", "non2xx", "null_body"}}
  \cup
  {[kind |-> "ok", access_token |-> Str(id), refresh_token |-> r,
    expires_in |-> e] :
     r \in {Str(id), Undefined}, e \in {Num(ShortLife), Num(LongLife)}}
  \cup
  {[kind |-> "ok", access_token |-> a, refresh_token |-> Undefined,
    expires_in |-> Undefined] : a \in {Str(id), Undefined}}

\* faulty variant: the new access_token is not stored
UpdateTokensKeepAccess(cfg, td, t) ==
  [cfg |-> [cfg EXCEPT
              !.refresh_token =
                 IF Truthy(td.refresh_token) THEN td.refresh_token ELSE @,
              !.expires_at = JsAdd(Num(t), JsMul(td.expires_in, Num(1000)))],
   set |-> {"expires_at"}
             \cup (IF Truthy(td.refresh_token) THEN {"refresh_token"} ELSE {})]

\* faulty variant: refresh_token is stored whether or not the response has one
UpdateTokensAlwaysRotate(cfg, td, t) ==
  [cfg |-> [cfg EXCEPT
              !.access_token = td.access_token,
              !.refresh_token = td.refresh_token,
              !.expires_at = JsAdd(Num(t), JsMul(td.expires_in, Num(1000)))],
   set |-> {"access_token", "refresh_token", "expires_at"}]

\* faulty variant: expires_at is only stored when the response has an expires_in
UpdateTokensGuardedExpiry(cfg, td, t) ==
  [cfg |-> [cfg EXCEPT
              !.access_token = td.access_token,
              !.refresh_token =
                 IF Truthy(td.refresh_token) THEN td.refresh_token ELSE @,
              !.expires_at =
                 IF Truthy(td.expires_in)
                 THEN JsAdd(Num(t), JsMul(td.expires_in, Num(1000))) ELSE @],
   set |-> {"access_token"}
             \cup (IF Truthy(td.refresh_token) THEN {"refresh_token"} ELSE {})
             \cup (IF Truthy(td.expires_in) THEN {"expires_at"} ELSE {})]

\* faulty variant: token_type is taken from the response, which has none
UpdateTokensWithType(cfg, td, t) ==
  [cfg |-> [cfg EXCEPT
              !.access_token = td.access_token,
              !.refresh_token =
                 IF Truthy(td.refresh_token) THEN td.refresh_token ELSE @,
              !.token_type = Undefined,
              !.expires_at = JsAdd(Num(t), JsMul(td.expires_in, Num(1000)))],
   set |-> {"access_token", "expires_at"}
             \cup (IF Truthy(td.refresh_token) THEN {"refresh_token"} ELSE {})]

\* faulty variant: expires_in is added as if it were milliseconds
UpdateTokensSeconds(cfg, td, t) ==
  [cfg |-> [cfg EXCEPT
              !.access_token = td.access_token,
              !.refresh_token =
                 IF Truthy(td.refresh_token) THEN td.refresh_token ELSE @,
              !.expires_at = JsAdd(Num(t), td.expires_in)],
   set |-> {"access_token", "expires_at"}
             \cup (IF Truthy(td.refresh_token) THEN {"refresh_token"} ELSE {})]

\* refreshAccessToken lines 142-146: the assignments to this.config, and the
\* fields they set
UpdateTokens(cfg, td, t) ==
  [cfg |-> [cfg EXCEPT
              !.access_token = td.access_token,
              !.refresh_token =
                 IF Truthy(td.refresh_token) THEN td.refresh_token ELSE @,
              !.expires_at = JsAdd(Num(t), JsMul(td.expires_in, Num(1000)))],
   set |-> {"access_token", "expires_at"}
             \cup (IF Truthy(td.refresh_token) THEN {"refresh_token"} ELSE {})]

\* refreshAccessToken from the arrival of the response on: the state it
\* leaves and whether it throws. The catch block turns every error of the
\* try block (the request's, the TypeError of reading a member of null, the
\* write's) into the refresh-failed error.
refreshAccessToken(cfg, fl, resp, writeOk, t) ==
  IF resp.kind # "ok"
  THEN [config |-> cfg, file |-> fl, set |-> {}, saved |-> FALSE, threw |-> TRUE]
  ELSE LET u == UpdateTokens(cfg, resp, t) IN
       [config |-> u.cfg,
        file |-> IF writeOk THEN saveConfig(u.cfg) ELSE fl,
        set |-> u.set,
        saved |-> writeOk,
        threw |-> ~writeOk]

\* getValidAccessToken line 169 / the rejection of line 166
Outcome(r) ==
  IF r.threw
  THEN [kind |-> "threw", value |-> Undefined, msg |-> RefreshFailedMsg]
  ELSE [kind |-> "returned", value |-> r.config.access_token, msg |-> ""]

\* ------------------------------------------------- the setup script
\* oauth-setup.ts. Query parameters and environment variables are strings;
\* "" stands for one that is not there (both are falsy).
StateValues == {"s1", "s2"}
NoFile ==
  [access_token |-> Absent, refresh_token |-> Absent, token_type |-> Absent,
   expires_at |-> Absent, client_id |-> "", client_secret |-> "",
   reviewboard_url |-> ""]

StateMismatchMsg == "State mismatch - possible CSRF attack"
MissingParamMsg == "Missing code or state parameter"
AuthFailedMsg(error) == "Authorization failed: " \o error
ExchangeFailedMsg == "Failed to exchange code for token"
MissingEnvMsg == "Missing required environment variables"
BindErrorMsg == "listen EADDRINUSE"
WriteErrorMsg == "EACCES: permission denied"

NoExchange == [url |-> "", grant_type |-> "", code |-> "", redirect_uri |-> "",
               client_id |-> "", client_secret |-> ""]

\* no request has reached /callback yet
NoQuery == [seen |-> FALSE, code |-> "", state |-> "", error |-> ""]

RunnerOff ==
  [pc |-> "off",
   env |-> [REVIEWBOARD_URL |-> "", REVIEWBOARD_CLIENT_ID |-> "",
            REVIEWBOARD_CLIENT_SECRET |-> ""],
   state |-> "",            \* const state = generateState()
   server |-> "none",       \* none, binding, listening, closed, error
   promise |-> [status |-> "pending", code |-> "", state |-> "", error |-> ""],
   settles |-> 0,           \* calls of resolve or reject
   conns |-> 0,             \* accepted connections whose request is to come
   accepted |-> 0,          \* connections accepted so far
   responses |-> <<>>,      \* HTTP responses written, in order
   unanswered |-> 0,        \* requests the handler returned from with no response
   events |-> <<>>,         \* url_shown, listen_called, listening
   exchanges |-> 0,         \* token-exchange requests issued
   exchange |-> NoExchange, \* the token-exchange request
   answer |-> "",           \* how the token endpoint answered: "", ok, error
   first |-> NoQuery,       \* the query of the first request to /callback
   writes |-> 0,            \* completed writes of the credential file
   exitCode |-> -1,         \* -1 while the process runs
   stderr |-> ""]           \* the diagnostic on the error stream

\* faulty variant: a request to another path is answered as invalid and
\* ends the wait
HandlerRejectsOtherPaths(path, q) ==
  IF path # "/callback"
  THEN [status |-> 400, body |-> "Invalid Request", close |-> TRUE,
        settle |-> "reject", error |-> MissingParamMsg]
  ELSE IF q.error # ""
  THEN [status |-> 400, body |-> "Authorization Failed", close |-> TRUE,
        settle |-> "reject", error |-> AuthFailedMsg(q.error)]
  ELSE IF q.code # "" /\ q.state # ""
  THEN [status |-> 200, body |-> "Authorization Successful!", close |-> TRUE,
        settle |-> "resolve", error |-> ""]
  ELSE [status |-> 400, body |-> "Invalid Request", close |-> TRUE,
        settle |-> "reject", error |-> MissingParamMsg]

\* faulty variant: the handler looks at code and state before error
HandlerCodeFirst(path, q) ==
  IF path # "/callback"
  THEN [status |-> 0, body |-> "", close |-> FALSE, settle |-> "none",
        error |-> ""]
  ELSE IF q.code # "" /\ q.state # ""
  THEN [status |-> 200, body |-> "Authorization Successful!", close |-> TRUE,
        settle |-> "resolve", error |-> ""]
  ELSE IF q.error # ""
  THEN [status |-> 400, body |-> "Authorization Failed", close |-> TRUE,
        settle |-> "reject", error |-> AuthFailedMsg(q.error)]
  ELSE [status |-> 400, body |-> "Invalid Request", close |-> TRUE,
        settle |-> "reject", error |-> MissingParamMsg]

\* startCallbackServer's request handler, lines 34-62: the response it
\* writes (status 0: none), whether it closes the server, and how it
\* settles the promise
Handler(path, q) ==
  IF path # "/callback"
  THEN [status |-> 0, body |-> "", close |-> FALSE, settle |-> "none",
        error |-> ""]
  ELSE IF q.error # ""
  THEN [status |-> 400, body |-> "Authorization Failed", close |-> TRUE,
        settle |-> "reject", error |-> AuthFailedMsg(q.error)]
  ELSE IF q.code # "" /\ q.state # ""
  THEN [status |-> 200, body |-> "Authorization Successful!", close |-> TRUE,
        settle |-> "resolve", error |-> ""]
  ELSE [status |-> 400, body |-> "Invalid Request", close |-> TRUE,
        settle |-> "reject", error |-> MissingParamMsg]

\* resolve / reject of the promise of startCallbackServer: a settled promise
\* stays as it is
Settle(p, how, q, error) ==
  IF p.status # "pending" \/ how = "none" THEN p
  ELSE IF how = "resolve"
  THEN [status |-> "resolved", code |-> q.code, state |-> q.state, error |-> ""]
  ELSE [status |-> "rejected", code |-> "", state |-> "", error |-> error]

\* faulty variant: the returned state is not looked at
StateMismatchIgnored(state, returnedState) == state # state

\* main line 164: state !== returnedState
StateMismatch(state, returnedState) == state # returnedState

\* the request of exchangeCodeForToken, lines 85-99
ExchangeRequest(env, code) ==
  [url |-> env.REVIEWBOARD_URL \o "/oauth2/token/",
   grant_type |-> "authorization_code",
   code |-> code,
   redirect_uri |-> "http://localhost:3000/callback",
   client_id |-> env.REVIEWBOARD_CLIENT_ID,
   client_secret |-> env.REVIEWBOARD_CLIENT_SECRET]

\* faulty variant: the catch block ends the process with status 0
FatalExitZero(r, msg) == [r EXCEPT !.pc = "exited", !.exitCode = 0, !.stderr = msg]

\* faulty variant: only the service URL is looked at
EnvMissingUrlOnly(env) == env.REVIEWBOARD_URL = ""

\* main line 126: !reviewboardUrl || !clientId || !clientSecret
EnvMissing(env) ==
  \/ env.REVIEWBOARD_URL = ""
  \/ env.REVIEWBOARD_CLIENT_ID = ""
  \/ env.REVIEWBOARD_CLIENT_SECRET = ""

\* main lines 199-202: the catch block
Fatal(r, msg) == [r EXCEPT !.pc = "exited", !.exitCode = 1, !.stderr = msg]

\* main from "await callbackPromise" on, once the promise is settled:
\* lines 161-177 and the catch block
AfterCallback(r) ==
  IF r.promise.status = "rejected" THEN Fatal(r, r.promise.error)
  ELSE IF StateMismatch(r.state, r.promise.state) THEN Fatal(r, StateMismatchMsg)
  ELSE [r EXCEPT !.pc = "exchanging", !.exchanges = @ + 1,
                 !.exchange = ExchangeRequest(r.env, r.promise.code)]

\* main lines 180-191: the record saveConfig writes
SetupRecord(env, td, t) ==
  [access_token |-> td.access_token,
   refresh_token |-> td.refresh_token,
   token_type |-> td.token_type,
   expires_at |-> JsAdd(Num(t), JsMul(td.expires_in, Num(1000))),
   client_id |-> env.REVIEWBOARD_CLIENT_ID,
   client_secret |-> env.REVIEWBOARD_CLIENT_SECRET,
   reviewboard_url |-> env.REVIEWBOARD_URL]

\* what the token endpoint can answer to the authorization-code grant
ExchangeResponses ==
  {[kind |-> "error", access_token |-> Undefined, refresh_token |-> Undefined,
    token_type |-> Undefined, expires_in |-> Undefined]}
  \cup
  {[kind |-> "ok", access_token |-> Str(1), refresh_token |-> Str(1),
    token_type |-> Str(0), expires_in |-> e] :
     e \in {Num(ShortLife), Num(LongLife)}}

\* ------------------------------------------------- the MCP server process
\* part_000: getClient, ReviewBoardClient and the CallTool handler
ConfigNotFoundMsg ==
  "OAuth configuration file not found at oauth-config.json. Please run the OAuth setup script first: npm run oauth-setup"
SyntaxErrorMsg == "Unexpected token o in JSON at position 0"
NoUrlMsg == "Cannot read properties of undefined (reading 'replace')"
UnknownToolMsg == "Unknown tool: bogus"
ApiErrorMsg == "Request failed with status code 500"
GatewayPrefix == "Failed to fetch review request 1: "
HandlerPrefix == "Error: "

\* a file whose content JSON.parse rejects
NotJSON == [NoFile EXCEPT !.access_token = [k |-> "text", v |-> 0]]

\* files that parse but are not a full record: no token fields, no
\* expires_at, no reviewboard_url
IncompleteRecords ==
  {[NoFile EXCEPT !.client_id = "cid", !.client_secret = "secret",
                  !.reviewboard_url = "https://rb"],
   [access_token |-> Str(0), refresh_token |-> Str(0), token_type |-> Str(0),
    expires_at |-> Absent, client_id |-> "cid", client_secret |-> "secret",
    reviewboard_url |-> "https://rb"],
   [access_token |-> Str(0), refresh_token |-> Str(0), token_type |-> Str(0),
    expires_at |-> Num(T0 + expiryBuffer + 1), client_id |-> "cid",
    client_secret |-> "secret", reviewboard_url |-> ""]}

\* what oauth-config.json can hold when the server process starts
SrvFiles == {NoFile, NotJSON} \cup IncompleteRecords \cup InitRecords

\* fs.existsSync(this.configPath)
existsSync(f) == f # NoFile

\* faulty variant: the file is read without the existence test
ConstructUnchecked(f) ==
  IF f = NotJSON
  THEN [threw |-> TRUE, msg |-> SyntaxErrorMsg, config |-> NoFile]
  ELSE [threw |-> FALSE, msg |-> "", config |-> loadConfig(f)]

\* new OAuth2TokenManager(configPath), lines 92-112: loadConfig throws when
\* the file is not there and JSON.parse throws on a text that is not JSON;
\* every other content is taken as it is
Construct(f) ==
  IF ~existsSync(f)
  THEN [threw |-> TRUE, msg |-> ConfigNotFoundMsg, config |-> NoFile]
  ELSE IF f = NotJSON
  THEN [threw |-> TRUE, msg |-> SyntaxErrorMsg, config |-> NoFile]
  ELSE [threw |-> FALSE, msg |-> "", config |-> loadConfig(f)]

NoToolResult == [isError |-> FALSE, text |-> ""]
NoHeader == [scheme |-> "", token |-> Undefined]

SrvOff ==
  [pc |-> "off",            \* off, starting, running, exited
   env |-> [REVIEWBOARD_URL |-> "", REVIEWBOARD_TOKEN |-> ""],
   rbClient |-> "null",     \* null, token, oauth
   constructions |-> 0,     \* calls of new OAuth2TokenManager
   loads |-> 0,             \* calls of loadConfig that returned a record
   ncalls |-> 0,            \* tool calls received
   failures |-> 0,          \* tool calls answered with isError
   call |-> "idle",         \* the tool call: idle, refreshing, requesting
   refresh |-> "none",      \* the refresh of this call: none, ok, threw
   api |-> "none",          \* the API request of this call: none, ok, failed
   tmError |-> "",          \* the error the Token Manager threw in this call
   gwError |-> "",          \* the error the gateway operation threw
   consults |-> 0,          \* calls of getValidAccessToken() in this call
   token |-> Undefined,     \* what the last of them returned
   sent |-> 0,              \* API requests sent in this call
   header |-> NoHeader,     \* Authorization header of the last API request
   result |-> NoToolResult, \* what the handler returned
   exitCode |-> -1]         \* -1 while the process runs

\* faulty variant: the handler's catch block ends the process
HandlerCatchExits(s, msg) ==
  [s EXCEPT !.call = "idle", !.failures = @ + 1, !.pc = "exited",
            !.exitCode = 1,
            !.result = [isError |-> TRUE, text |-> HandlerPrefix \o msg]]

\* the handler's catch block, lines 869-880
HandlerCatch(s, msg) ==
  [s EXCEPT !.call = "idle", !.failures = @ + 1,
            !.result = [isError |-> TRUE, text |-> HandlerPrefix \o msg]]

\* the handler's return of a tool's result
HandlerReturn(s) ==
  [s EXCEPT !.call = "idle", !.result = [isError |-> FALSE, text |-> "result"]]

\* the catch block of a gateway operation (getReviewRequest, lines 277-280):
\* a new Error whose message is prefixed; the handler catches it
GatewayThrow(s, msg) ==
  HandlerCatch([s EXCEPT !.gwError = GatewayPrefix \o msg],
               GatewayPrefix \o msg)

\* the API request leaves with its Authorization header
SendApi(s, header) ==
  [s EXCEPT !.call = "requesting", !.sent = @ + 1, !.header = header]

\* faulty variant: the interceptor sends the request whatever the Token
\* Manager did
AfterTokenSendsAnyway(s, out) ==
  SendApi(s, [scheme |-> "Bearer", token |-> out.value])

\* faulty variant: the header of the previous request is used again
AfterTokenCachedHeader(s, out) ==
  IF out.kind = "threw" THEN GatewayThrow(s, out.msg)
  ELSE SendApi(s, IF s.header.scheme = "Bearer" THEN s.header
                  ELSE [scheme |-> "Bearer", token |-> out.value])

\* the request interceptor after await getValidAccessToken(), lines 224-227:
\* a rejection rejects the request, which is then not sent
AfterToken(s, out) ==
  IF out.kind = "threw" THEN GatewayThrow(s, out.msg)
  ELSE SendApi(s, [scheme |-> "Bearer", token |-> out.value])

\* faulty variant: the static token alone selects static-token mode
getClientTokenOnly(s, cfg, f) ==
  IF s.rbClient # "null"
  THEN [srv |-> s, config |-> cfg, threw |-> FALSE, msg |-> ""]
  ELSE IF s.env.REVIEWBOARD_TOKEN # ""
  THEN [srv |-> [s EXCEPT !.rbClient = "token"], config |-> cfg,
        threw |-> FALSE, msg |-> ""]
  ELSE LET c == Construct(f)
           s1 == [s EXCEPT !.constructions = @ + 1]
       IN IF c.threw
          THEN [srv |-> [s1 EXCEPT !.tmError = c.msg], config |-> cfg,
                threw |-> TRUE, msg |-> c.msg]
          ELSE IF c.config.reviewboard_url = ""
          THEN [srv |-> [s1 EXCEPT !.loads = @ + 1], config |-> cfg,
                threw |-> TRUE, msg |-> NoUrlMsg]
          ELSE [srv |-> [s1 EXCEPT !.rbClient = "oauth", !.loads = @ + 1],
                config |-> c.config, threw |-> FALSE, msg |-> ""]

\* getClient, lines 460-477, with the ReviewBoardClient constructor
getClient(s, cfg, f) ==
  IF s.rbClient # "null"
  THEN [srv |-> s, config |-> cfg, threw |-> FALSE, msg |-> ""]
  ELSE IF s.env.REVIEWBOARD_TOKEN # "" /\ s.env.REVIEWBOARD_URL # ""
  THEN [srv |-> [s EXCEPT !.rbClient = "token"], config |-> cfg,
        threw |-> FALSE, msg |-> ""]
  ELSE LET c == Construct(f)
           s1 == [s EXCEPT !.constructions = @ + 1]
       IN IF c.threw
          THEN [srv |-> [s1 EXCEPT !.tmError = c.msg], config |-> cfg,
                threw |-> TRUE, msg |-> c.msg]
          ELSE IF c.config.reviewboard_url = ""
          THEN [srv |-> [s1 EXCEPT !.loads = @ + 1], config |-> cfg,
                threw |-> TRUE, msg |-> NoUrlMsg]
          ELSE [srv |-> [s1 EXCEPT !.rbClient = "oauth", !.loads = @ + 1],
                config |-> c.config, threw |-> FALSE, msg |-> ""]

\* ------------------------------------------------- the Jira server
\* jira-server/src/index.ts, class JiraClient. An instance name is a
\* sequence of characters. A URL is a sequence of parts: "/", "jira",
\* "atlassian.net", and "x" for any text that holds none of these.
Chars == {"a", "A", "b", "B", "c"}
LowerOf(c) == CASE c = "A" -> "a" [] c = "B" -> "b" [] OTHER -> c

\* String.prototype.toLowerCase
toLowerCase(name) == [i \in 1..Len(name) |-> LowerOf(name[i])]

UrlParts == {"/", "jira", "atlassian.net", "x"}
Https == <<"x", "/", "/">>
NoUrl == <<>>

\* url.includes(part)
includes(u, part) == \E i \in 1..Len(u) : u[i] = part

\* url.replace(/\/$/, "")
StripSlash(u) ==
  IF Len(u) > 0 /\ u[Len(u)] = "/" THEN SubSeq(u, 1, Len(u) - 1) ELSE u

\* baseUrl.replace(/\/jira.*$/, ''): everything from the first "/jira" on
StripJira(u) ==
  LET at == {i \in 1..(Len(u) - 1) : u[i] = "/" /\ u[i + 1] = "jira"}
  IN IF at = {} THEN u
     ELSE SubSeq(u, 1, (CHOOSE i \in at : \A j \in at : i <= j) - 1)

\* getClient lines 102-108
BaseUrl(url) ==
  LET b == StripSlash(url)
  IN IF includes(b, "atlassian.net") THEN StripJira(b) ELSE b

\* getClient line 111
ApiVersion(url) == IF includes(BaseUrl(url), "atlassian.net") THEN "3" ELSE "2"

\* createIssue lines 184-208: the form of the description
DescriptionField(url) == IF includes(url, "atlassian.net") THEN "adf" ELSE "plain"

\* Map: a sequence of [key, val] in insertion order
MapHas(m, k) == \E i \in 1..Len(m) : m[i].key = k
MapGet(m, k) == m[CHOOSE i \in 1..Len(m) : m[i].key = k].val
MapSet(m, k, v) ==
  IF MapHas(m, k)
  THEN [i \in 1..Len(m) |-> IF m[i].key = k THEN [key |-> k, val |-> v] ELSE m[i]]
  ELSE Append(m, [key |-> k, val |-> v])
MapKeys(m) == [i \in 1..Len(m) |-> m[i].key]

\* the constructor, lines 73-82, over the JIRA_INSTANCE_<NAME>_* variables
RECURSIVE Register(_, _)
Register(m, env) ==
  IF env = <<>> THEN m
  ELSE LET e == Head(env)
           m1 == IF e.url # NoUrl /\ e.email # "" /\ e.token # ""
                 THEN MapSet(m, toLowerCase(e.name),
                             [url |-> e.url, email |-> e.email, token |-> e.token])
                 ELSE m
       IN Register(m1, Tail(env))

NoClient == [baseURL |-> NoUrl, version |-> "", username |-> "", id |-> 0]
NoError == [kind |-> "", prefix |-> "", instance |-> <<>>, available |-> <<>>]
NoJiraReq == [op |-> "", version |-> "", body |-> "", client |-> 0]

\* the instance names a caller can pass, the base URLs an instance can be
\* configured with, and the variables of a second instance
LookupNames == {<<c>> : c \in Chars}
JiraUrls == {Https \o r : r \in UNION {[1..k -> UrlParts] : k \in 1..MaxUrlLen}}
SecondEntries ==
  {<<>>} \cup
  {<<[name |-> n, url |-> Https \o u, email |-> "e2", token |-> "t2"]>> :
     n \in {<<"A">>, <<"b">>}, u \in {<<"x">>, <<"x", "atlassian.net">>}}

\* the catch block of an operation: a new Error with the operation's prefix
JiraWrap(e, prefix) == [e EXCEPT !.prefix = prefix]

HttpError == [kind |-> "Http", prefix |-> "", instance |-> <<>>, available |-> <<>>]

JiraOff ==
  [pc |-> "off",
   instances |-> <<>>,    \* this.instances
   clients |-> <<>>,      \* this.clients
   created |-> 0,         \* calls of axios.create
   ops |-> 0,             \* operations started
   lookups |-> 0,         \* calls of getClient in the last operation
   name |-> <<>>,         \* the instance name of the last lookup
   found |-> NoClient,    \* the client the last lookup returned
   error |-> NoError,     \* the error the last operation threw
   sent |-> 0,            \* HTTP requests sent in the last operation
   req |-> NoJiraReq,     \* the last HTTP request sent
   pending |-> ""]        \* the operation waiting for its response

\* faulty variant: the name is looked up as it was typed
JiraGetClientCaseSensitive(j, instance) ==
  LET key == instance
      j1 == [j EXCEPT !.lookups = @ + 1, !.name = instance]
  IN IF ~MapHas(j.instances, key)
     THEN [jira |-> [j1 EXCEPT !.found = NoClient], threw |-> TRUE,
           error |-> [kind |-> "UnknownInstance", prefix |-> "",
                      instance |-> instance,
                      available |-> MapKeys(j.instances)]]
     ELSE LET cfg == MapGet(j.instances, key)
              c == [baseURL |-> BaseUrl(cfg.url) \o <<"/", "x">>,
                    version |-> ApiVersion(cfg.url),
                    username |-> cfg.email, id |-> j.created + 1]
              j2 == IF MapHas(j.clients, key) THEN j1
                    ELSE [j1 EXCEPT !.clients = MapSet(@, key, c),
                                    !.created = @ + 1]
          IN [jira |-> [j2 EXCEPT !.found = MapGet(j2.clients, key)],
              threw |-> FALSE, error |-> NoError]

\* faulty variant: the error does not list the registered names
JiraGetClientNoList(j, instance) ==
  LET key == toLowerCase(instance)
      j1 == [j EXCEPT !.lookups = @ + 1, !.name = instance]
  IN IF ~MapHas(j.instances, key)
     THEN [jira |-> [j1 EXCEPT !.found = NoClient], threw |-> TRUE,
           error |-> [kind |-> "UnknownInstance", prefix |-> "",
                      instance |-> instance, available |-> <<>>]]
     ELSE LET cfg == MapGet(j.instances, key)
              c == [baseURL |-> BaseUrl(cfg.url) \o <<"/", "x">>,
                    version |-> ApiVersion(cfg.url),
                    username |-> cfg.email, id |-> j.created + 1]
              j2 == IF MapHas(j.clients, key) THEN j1
                    ELSE [j1 EXCEPT !.clients = MapSet(@, key, c),
                                    !.created = @ + 1]
          IN [jira |-> [j2 EXCEPT !.found = MapGet(j2.clients, key)],
              threw |-> FALSE, error |-> NoError]

\* JiraClient.getClient, lines 91-129
JiraGetClient(j, instance) ==
  LET key == toLowerCase(instance)
      j1 == [j EXCEPT !.lookups = @ + 1, !.name = instance]
  IN IF ~MapHas(j.instances, key)
     THEN [jira |-> [j1 EXCEPT !.found = NoClient], threw |-> TRUE,
           error |-> [kind |-> "UnknownInstance", prefix |-> "",
                      instance |-> instance,
                      available |-> MapKeys(j.instances)]]
     ELSE LET cfg == MapGet(j.instances, key)
              c == [baseURL |-> BaseUrl(cfg.url) \o <<"/", "x">>,
                    version |-> ApiVersion(cfg.url),
                    username |-> cfg.email, id |-> j.created + 1]
              j2 == IF MapHas(j.clients, key) THEN j1
                    ELSE [j1 EXCEPT !.clients = MapSet(@, key, c),
                                    !.created = @ + 1]
          IN [jira |-> [j2 EXCEPT !.found = MapGet(j2.clients, key)],
              threw |-> FALSE, error |-> NoError]

Awaiting(c) == tasks[c].pc = "awaiting"

\* no result is waiting to be taken by its caller. The continuation of an
\* await runs as a microtask, before the event loop takes any other event.
NoPendingResult == \A c \in Callers : tasks[c].pc # "done"

\* ---------------------------------------------------------------- actions
Init ==
  /\ file \in InitRecords
  /\ config = loadConfig(file)
  /\ now = T0
  /\ nreq = 0
  /\ origin = [access_token |-> 0, refresh_token |-> 0, expires_at |-> 0]
  /\ tasks = [c \in Callers |-> IdleTask]
  /\ runner = RunnerOff
  /\ srv = SrvOff
  /\ jira = JiraOff

\* getValidAccessToken() while the held token is not expired: returns in
\* the same turn of the event loop
CallValid(c) ==
  /\ NoPendingResult
  /\ tasks[c].pc = "idle"
  /\ ~isExpired(config, now)
  /\ tasks' = [tasks EXCEPT ![c] =
       [IdleTask EXCEPT !.pc = "done",
          !.overlapped = \E d \in Callers \ {c} : Awaiting(d),
          !.result = [kind |-> "returned", value |-> config.access_token,
                      msg |-> ""]]]
  /\ UNCHANGED <<config, file, now, nreq, origin, runner, srv, jira>>

\* getValidAccessToken() while the held token is expired: refreshAccessToken
\* posts the request and the caller is suspended on it
CallRefresh(c) ==
  /\ NoPendingResult
  /\ tasks[c].pc = "idle"
  /\ isExpired(config, now)
  /\ nreq < MaxRequests
  /\ nreq' = nreq + 1
  /\ tasks' = [d \in Callers |->
       IF d = c
       THEN [IdleTask EXCEPT !.pc = "awaiting",
               !.overlapped = \E e \in Callers \ {c} : Awaiting(e),
               !.req = RefreshRequest(config, nreq + 1)]
       ELSE IF Awaiting(d) THEN [tasks[d] EXCEPT !.overlapped = TRUE]
       ELSE tasks[d]]
  /\ UNCHANGED <<config, file, now, origin, runner, srv, jira>>

\* the response (or the error) of c's request arrives: the rest of
\* refreshAccessToken and of getValidAccessToken run to completion
Response(c) ==
  /\ NoPendingResult
  /\ Awaiting(c)
  /\ \E resp \in Responses(tasks[c].req.id), writeOk \in BOOLEAN :
       LET r == refreshAccessToken(config, file, resp, writeOk, now) IN
       /\ config' = r.config
       /\ file' = r.file
       /\ origin' = [f \in DOMAIN origin |->
                       IF f \in r.set THEN tasks[c].req.id ELSE origin[f]]
       /\ tasks' = [tasks EXCEPT ![c].pc = "done", ![c].resp = resp,
                      ![c].saved = r.saved,
                      ![c].result = Outcome(r)]
  /\ UNCHANGED <<now, nreq, runner, srv, jira>>

\* the caller takes the result; it may call again
Ack(c) ==
  /\ tasks[c].pc = "done"
  /\ tasks' = [tasks EXCEPT ![c] = IdleTask]
  /\ UNCHANGED <<config, file, now, nreq, origin, runner, srv, jira>>

Tick ==
  /\ NoPendingResult
  /\ now < T0 + MaxTicks * TickMs
  /\ now' = now + TickMs
  /\ UNCHANGED <<config, file, nreq, origin, tasks, runner, srv, jira>>

\* ------------------------------------------------- the setup script's steps
RunnerAlive == runner.pc \notin {"off", "exited", "ended", "killed"}

\* main lines 117-160: the environment check, generateState, the
\* authorization URL on the terminal, then startCallbackServer up to
\* server.listen
RunnerStart ==
  /\ runner.pc = "init"
  /\ IF EnvMissing(runner.env)
     THEN runner' = Fatal(runner, MissingEnvMsg)
     ELSE \E st \in StateValues :
            runner' = [runner EXCEPT
               !.pc = "waiting", !.state = st, !.server = "binding",
               !.events = @ \o <<"url_shown", "listen_called">>]
  /\ UNCHANGED <<config, file, now, nreq, origin, tasks, srv, jira>>

\* the port is bound: the 'listening' callback of line 64
BindOk ==
  /\ RunnerAlive
  /\ runner.server = "binding"
  /\ runner' = [runner EXCEPT !.server = "listening",
                              !.events = Append(@, "listening")]
  /\ UNCHANGED <<config, file, now, nreq, origin, tasks, srv, jira>>

\* the port cannot be bound: server.on('error') rejects, main's catch exits
BindError ==
  /\ RunnerAlive
  /\ runner.server = "binding"
  /\ LET r == [runner EXCEPT
                 !.server = "error",
                 !.settles = @ + 1,
                 !.promise = Settle(@, "reject", NoExchange, BindErrorMsg)]
     IN runner' = AfterCallback(r)
  /\ UNCHANGED <<config, file, now, nreq, origin, tasks, srv, jira>>

\* a client connects while the server accepts connections
Connect ==
  /\ RunnerAlive
  /\ runner.server = "listening"
  /\ runner.accepted < MaxConns
  /\ runner' = [runner EXCEPT !.conns = @ + 1, !.accepted = @ + 1]
  /\ UNCHANGED <<config, file, now, nreq, origin, tasks, srv, jira>>

\* a request arrives on an accepted connection: the handler runs, and when
\* it settles the pending promise main resumes in the same turn
Request ==
  /\ RunnerAlive
  /\ runner.conns > 0
  /\ \E path \in {"/callback", "/favicon.ico"},
        code \in {"", "c1"}, st \in {""} \cup StateValues,
        error \in {"", "access_denied"} :
       LET q == [code |-> code, state |-> st, error |-> error]
           h == Handler(path, q)
           r == [runner EXCEPT
                   !.conns = @ - 1,
                   !.first = IF path = "/callback" /\ ~@.seen
                             THEN [seen |-> TRUE, code |-> code, state |-> st,
                                   error |-> error]
                             ELSE @,
                   !.responses = IF h.status = 0 THEN @
                                 ELSE Append(@, [status |-> h.status,
                                                 body |-> h.body]),
                   !.unanswered = IF h.status = 0 THEN @ + 1 ELSE @,
                   !.server = IF h.close /\ @ = "listening" THEN "closed" ELSE @,
                   !.settles = IF h.settle = "none" THEN @ ELSE @ + 1,
                   !.promise = Settle(@, h.settle, q, h.error)]
       IN runner' = IF runner.promise.status = "pending"
                       /\ r.promise.status # "pending"
                    THEN AfterCallback(r) ELSE r
  /\ UNCHANGED <<config, file, now, nreq, origin, tasks, srv, jira>>

\* the answer to the token-exchange request: main lines 178-203
ExchangeResponse ==
  /\ runner.pc = "exchanging"
  /\ \E resp \in ExchangeResponses, writeOk \in BOOLEAN :
       IF resp.kind # "ok"
       THEN /\ runner' = Fatal([runner EXCEPT !.answer = "error"],
                                ExchangeFailedMsg)
            /\ file' = file
       ELSE IF ~writeOk
       THEN /\ runner' = Fatal([runner EXCEPT !.answer = "ok"], WriteErrorMsg)
            /\ file' = file
       ELSE /\ runner' = [runner EXCEPT !.pc = "finished", !.answer = "ok",
                                        !.writes = @ + 1]
            /\ file' = JSONstringify(SetupRecord(runner.env, resp, now))
  /\ UNCHANGED <<config, now, nreq, origin, tasks, srv, jira>>

\* main has returned, the server is closed and no connection is left: the
\* process ends with status 0
ProcessEnd ==
  /\ runner.pc = "finished"
  /\ runner.server = "closed"
  /\ runner.conns = 0
  /\ runner' = [runner EXCEPT !.pc = "ended", !.exitCode = 0]
  /\ UNCHANGED <<config, file, now, nreq, origin, tasks, srv, jira>>

\* the operator interrupts the script (SIGINT). The script installs no
\* signal handler and arms no timer, so the signal ends the process at
\* once, with its listener; status 130
Interrupt ==
  /\ RunnerAlive
  /\ runner' = [runner EXCEPT
                  !.pc = "killed", !.exitCode = 130, !.conns = 0,
                  !.server = IF @ \in {"binding", "listening"} THEN "closed"
                             ELSE @]
  /\ UNCHANGED <<config, file, now, nreq, origin, tasks, srv, jira>>

RunnerInit ==
  /\ file = NoFile
  /\ config = NoFile
  /\ now = T0
  /\ nreq = 0
  /\ origin = [access_token |-> 0, refresh_token |-> 0, expires_at |-> 0]
  /\ tasks = [c \in Callers |-> IdleTask]
  /\ srv = SrvOff
  /\ jira = JiraOff
  /\ \E u \in {"", "https://rb"}, i \in {"", "cid"}, s \in {"", "secret"} :
       runner = [RunnerOff EXCEPT
                   !.pc = "init",
                   !.env = [REVIEWBOARD_URL |-> u, REVIEWBOARD_CLIENT_ID |-> i,
                            REVIEWBOARD_CLIENT_SECRET |-> s]]

RunnerNext ==
  \/ RunnerStart
  \/ BindOk
  \/ BindError
  \/ Connect
  \/ Request
  \/ ExchangeResponse
  \/ ProcessEnd

\* ------------------------------------------------- the server process's steps
\* main, lines 884-891: the transport is connected; the credential file is
\* not looked at
ServerStart ==
  /\ srv.pc = "starting"
  /\ srv' = [srv EXCEPT !.pc = "running"]
  /\ UNCHANGED <<config, file, now, nreq, origin, tasks, runner, jira>>

\* a tools/call request: the handler up to its first wait for the network
ToolCall ==
  /\ srv.pc = "running"
  /\ srv.call = "idle"
  /\ srv.ncalls < MaxToolCalls
  /\ \E tool \in {"get_review_request", "bogus"} :
       LET s0 == [srv EXCEPT !.ncalls = @ + 1, !.refresh = "none",
                             !.api = "none", !.tmError = "", !.gwError = "",
                             !.consults = 0, !.sent = 0,
                             !.result = NoToolResult]
           g == getClient(s0, config, file)
       IN IF g.threw
          THEN /\ srv' = HandlerCatch(g.srv, g.msg)
               /\ UNCHANGED <<config, nreq, jira>>
          ELSE IF tool = "bogus"
          THEN /\ srv' = HandlerCatch(g.srv, UnknownToolMsg)
               /\ config' = g.config
               /\ nreq' = nreq
          ELSE IF g.srv.rbClient = "token"
          THEN /\ srv' = SendApi(g.srv, [scheme |-> "token", token |-> Str(0)])
               /\ UNCHANGED <<config, nreq, jira>>
          ELSE IF isExpired(g.config, now)
          THEN /\ srv' = [g.srv EXCEPT !.call = "refreshing",
                                       !.consults = @ + 1]
               /\ config' = g.config
               /\ nreq' = nreq + 1
          ELSE /\ srv' = AfterToken(
                           [g.srv EXCEPT !.consults = @ + 1,
                                         !.token = g.config.access_token],
                           [kind |-> "returned",
                            value |-> g.config.access_token, msg |-> ""])
               /\ config' = g.config
               /\ nreq' = nreq
  /\ UNCHANGED <<file, now, origin, tasks, runner, jira>>

\* the answer to the refresh request: refreshAccessToken, the rest of
\* getValidAccessToken, the interceptor and, on an error, both catch blocks
RefreshResponse ==
  /\ srv.call = "refreshing"
  /\ \E resp \in Responses(nreq), writeOk \in BOOLEAN :
       LET r == refreshAccessToken(config, file, resp, writeOk, now)
           out == Outcome(r)
           s1 == [srv EXCEPT !.refresh = IF r.threw THEN "threw" ELSE "ok",
                             !.tmError = out.msg,
                             !.token = IF r.threw THEN @ ELSE out.value]
       IN /\ config' = r.config
          /\ file' = r.file
          /\ srv' = AfterToken(s1, out)
  /\ UNCHANGED <<now, nreq, origin, tasks, runner, jira>>

\* the answer to the API request
ApiResponse ==
  /\ srv.call = "requesting"
  /\ \E ok \in BOOLEAN :
       srv' = IF ok THEN HandlerReturn([srv EXCEPT !.api = "ok"])
              ELSE GatewayThrow([srv EXCEPT !.api = "failed"], ApiErrorMsg)
  /\ UNCHANGED <<config, file, now, nreq, origin, tasks, runner, jira>>

ServerInit ==
  /\ file \in SrvFiles
  /\ config = NoFile
  /\ now = T0
  /\ nreq = 0
  /\ origin = [access_token |-> 0, refresh_token |-> 0, expires_at |-> 0]
  /\ tasks = [c \in Callers |-> IdleTask]
  /\ runner = RunnerOff
  /\ jira = JiraOff
  /\ \E u \in {"", "https://rb"}, t \in {"", "tok"} :
       srv = [SrvOff EXCEPT
                !.pc = "starting",
                !.env = [REVIEWBOARD_URL |-> u, REVIEWBOARD_TOKEN |-> t]]

ServerNext ==
  \/ ServerStart
  \/ ToolCall
  \/ RefreshResponse
  \/ ApiResponse
  \/ Tick

\* ------------------------------------------------- the JiraClient's steps
\* getIssue, lines 131-148, up to the await
JiraGetIssue ==
  /\ jira.pc = "on"
  /\ jira.pending = ""
  /\ jira.ops < MaxJiraOps
  /\ \E instance \in LookupNames :
       LET g == JiraGetClient([jira EXCEPT !.ops = @ + 1, !.error = NoError,
                                            !.lookups = 0, !.sent = 0],
                              instance)
       IN jira' =
            IF g.threw
            THEN [g.jira EXCEPT !.error = JiraWrap(g.error, "Failed to fetch issue")]
            ELSE [g.jira EXCEPT
                    !.sent = @ + 1,
                    !.pending = "getIssue",
                    !.req = [op |-> "getIssue", version |-> g.jira.found.version,
                             body |-> "", client |-> g.jira.found.id]]
  /\ UNCHANGED <<config, file, now, nreq, origin, tasks, runner, srv>>

\* createIssue, lines 169-231, up to the await
JiraCreateIssue ==
  /\ jira.pc = "on"
  /\ jira.pending = ""
  /\ jira.ops < MaxJiraOps
  /\ \E instance \in LookupNames :
       LET g == JiraGetClient([jira EXCEPT !.ops = @ + 1, !.error = NoError,
                                            !.lookups = 0, !.sent = 0],
                              instance)
       IN jira' =
            IF g.threw
            THEN [g.jira EXCEPT !.error = JiraWrap(g.error, "Failed to create issue")]
            ELSE [g.jira EXCEPT
                    !.sent = @ + 1,
                    !.pending = "createIssue",
                    !.req = [op |-> "createIssue",
                             version |-> g.jira.found.version,
                             body |-> DescriptionField(
                                        MapGet(jira.instances,
                                               toLowerCase(instance)).url),
                             client |-> g.jira.found.id]]
  /\ UNCHANGED <<config, file, now, nreq, origin, tasks, runner, srv>>

\* the answer to the request of the operation in progress; createIssue goes
\* on to getIssue(instance, response.data.key), line 235
JiraResponse ==
  /\ jira.pending # ""
  /\ \E ok \in BOOLEAN :
       IF ~ok
       THEN jira' = [jira EXCEPT
                       !.pending = "",
                       !.error = JiraWrap(HttpError,
                                   IF jira.pending = "getIssue"
                                   THEN "Failed to fetch issue"
                                   ELSE "Failed to create issue")]
       ELSE IF jira.pending = "getIssue"
       THEN jira' = [jira EXCEPT !.pending = ""]
       ELSE LET g == JiraGetClient(jira, jira.name)
            IN jira' = [g.jira EXCEPT
                          !.sent = @ + 1,
                          !.pending = "getIssue",
                          !.req = [op |-> "getIssue",
                                   version |-> g.jira.found.version,
                                   body |-> "", client |-> g.jira.found.id]]
  /\ UNCHANGED <<config, file, now, nreq, origin, tasks, runner, srv>>

\* the JiraClient as its constructor leaves it
JiraInit ==
  /\ file = NoFile
  /\ config = NoFile
  /\ now = T0
  /\ nreq = 0
  /\ origin = [access_token |-> 0, refresh_token |-> 0, expires_at |-> 0]
  /\ tasks = [c \in Callers |-> IdleTask]
  /\ runner = RunnerOff
  /\ srv = SrvOff
  /\ \E n \in {<<"A">>, <<"a">>}, u \in JiraUrls, t \in {"", "t1"},
        second \in SecondEntries :
       jira = [JiraOff EXCEPT
                 !.pc = "on",
                 !.instances =
                    Register(<<>>, <<[name |-> n, url |-> u, email |-> "e1",
                                      token |-> t]>> \o second)]

JiraNext ==
  \/ JiraGetIssue
  \/ JiraCreateIssue
  \/ JiraResponse

vars == <<config, file, now, nreq, origin, tasks, runner, srv, jira>>

\* the Token Manager in the server process
Next ==
  \/ \E c \in Callers : CallValid(c)
  \/ \E c \in Callers : CallRefresh(c)
  \/ \E c \in Callers : Response(c)
  \/ \E c \in Callers : Ack(c)
  \/ Tick

Spec == Init /\ [][Next]_vars

\* one invocation of the setup script
RunnerSpec == RunnerInit /\ [][RunnerNext]_vars

\* the setup script with its operator, who may interrupt it. What the
\* platform owes the script happens: the listen call is answered, so is the
\* token-exchange request, and a finished process ends. Neither the browser
\* nor the operator owes it anything.
RunnerLiveNext ==
  \/ RunnerNext
  \/ Interrupt

RunnerLiveSpec ==
  /\ RunnerInit
  /\ [][RunnerLiveNext]_vars
  /\ WF_vars(RunnerStart)
  /\ WF_vars(BindOk \/ BindError)
  /\ WF_vars(ExchangeResponse)
  /\ WF_vars(ProcessEnd)

\* the server process from its start
ServerSpec == ServerInit /\ [][ServerNext]_vars

\* the Jira server's JiraClient from its construction
JiraSpec == JiraInit /\ [][JiraNext]_vars

\* ------------------------------------------------------------ properties
\* "Valid" as the state machine of the Token Manager defines it: the held
\* token expires strictly after now + the buffer
StrictlyValid(cfg, t) ==
  cfg.expires_at.k = "number" /\ cfg.expires_at.v > t + expiryBuffer

\* expired or within the buffer
DueForRefresh(cfg, t) ==
  cfg.expires_at.k = "number" /\ cfg.expires_at.v <= t + expiryBuffer

Returned(v) == [kind |-> "returned", value |-> v, msg |-> ""]

\* steps of caller c
Calls(c) == tasks[c].pc = "idle" /\ tasks'[c].pc # "idle"
Completes(c) == tasks[c].pc = "awaiting" /\ tasks'[c].pc = "done"
Returns(c) == tasks[c].pc # "done" /\ tasks'[c].pc = "done"
                /\ tasks'[c].result.kind = "returned"

\* a 2xx response that carries an access token
Issued(resp) == resp.kind = "ok" /\ resp.access_token.k = "string"

\* a 2xx response that is not a token response
Malformed(resp) ==
  resp.kind = "ok" /\ (resp.access_token.k # "string"
                         \/ resp.expires_in.k # "number")

\* a time no expiry of the model lies beyond: a token that is not due for
\* refresh at Horizon is never due
Horizon == T0 + MaxTicks * TickMs + LongLife * 1000 + expiryBuffer

\* C1: a call made while the held expires_at is strictly greater than
\* now + 300000 sends no request, writes nothing, changes no field of the
\* record and returns the held access_token; as it changes nothing, a second
\* such call returns the same token.
C1_ValidCallHasNoEffect ==
  [][\A c \in Callers :
       (Calls(c) /\ StrictlyValid(config, now)) =>
          /\ tasks'[c].pc = "done"
          /\ tasks'[c].req = NoReq
          /\ tasks'[c].result = Returned(config.access_token)
          /\ nreq' = nreq
          /\ file' = file
          /\ config' = config]_vars

C1_Witness ==
  \E c \in Callers :
    /\ tasks[c].pc = "done"
    /\ tasks[c].req = NoReq
    /\ StrictlyValid(config, now)
    /\ nreq > 0
    /\ tasks[c].result = Returned(config.access_token)

\* C2 as stated: a single, non-overlapping call made when expires_at <=
\* now + 300000 sends exactly one POST with grant_type=refresh_token to
\* <reviewboard_url>/oauth2/token/, and when the endpoint answers 2xx with
\* access_token T the call returns T.
C2_AsStated ==
  [][\A c \in Callers :
       /\ (Calls(c) /\ DueForRefresh(config, now)) =>
             /\ nreq' = nreq + 1
             /\ tasks'[c].req.id = nreq'
             /\ tasks'[c].req.grant_type = "refresh_token"
             /\ tasks'[c].req.url = config.reviewboard_url \o "/oauth2/token/"
       /\ (Completes(c) /\ ~tasks'[c].overlapped /\ Issued(tasks'[c].resp)) =>
             /\ nreq' = tasks[c].req.id
             /\ tasks'[c].result = Returned(tasks'[c].resp.access_token)]_vars

\* C2 amended: ... and when the endpoint answers 2xx with access_token T and
\* the write of the credential file succeeds, the call returns T.
C2_RefreshReturnsNewToken ==
  [][\A c \in Callers :
       /\ (Calls(c) /\ DueForRefresh(config, now)) =>
             /\ nreq' = nreq + 1
             /\ tasks'[c].req.id = nreq'
             /\ tasks'[c].req.grant_type = "refresh_token"
             /\ tasks'[c].req.url = config.reviewboard_url \o "/oauth2/token/"
       /\ (Completes(c) /\ ~tasks'[c].overlapped /\ Issued(tasks'[c].resp)
             /\ tasks'[c].saved) =>
             /\ nreq' = tasks[c].req.id
             /\ tasks'[c].result = Returned(tasks'[c].resp.access_token)]_vars

C2_Witness ==
  \E c \in Callers :
    /\ tasks[c].pc = "done"
    /\ ~tasks[c].overlapped
    /\ Issued(tasks[c].resp)
    /\ tasks[c].saved
    /\ nreq = tasks[c].req.id
    /\ tasks[c].result = Returned(Str(tasks[c].req.id))

\* C3: refresh is single-flight: at no time are two refresh requests of one
\* Token Manager in flight, so overlapping callers never send the held
\* refresh_token twice.
C3_SingleFlight ==
  \A c, d \in Callers : (Awaiting(c) /\ Awaiting(d)) => c = d

\* C4: a refresh attempt that fails (network error, non-2xx, malformed
\* response, or an error raised in the refresh path, the write of the file
\* included) leaves access_token, refresh_token and expires_at in memory as
\* they were, and the call fails with the refresh-failed error.
C4_FailedRefreshLeavesState ==
  [][\A c \in Callers :
       (Completes(c) /\ (\/ tasks'[c].resp.kind # "ok"
                         \/ Malformed(tasks'[c].resp)
                         \/ ~tasks'[c].saved)) =>
          /\ config' = config
          /\ tasks'[c].result.kind = "threw"
          /\ tasks'[c].result.msg = RefreshFailedMsg]_vars

\* C5: every access token returned is, when it is returned, strictly valid:
\* the held expires_at is later than now + 5 minutes.
C5_ReturnedTokenIsValid ==
  [][\A c \in Callers : Returns(c) => StrictlyValid(config', now')]_vars

\* C6: after a successful refresh the held and the persisted refresh_token
\* are the response's when it has one and the previously held one when it
\* has none; every refresh request sends the held refresh_token.
C6_RefreshTokenRotation ==
  [][\A c \in Callers :
       /\ (Completes(c) /\ tasks'[c].result.kind = "returned") =>
             /\ config'.refresh_token =
                  IF tasks'[c].resp.refresh_token.k = "string"
                  THEN tasks'[c].resp.refresh_token
                  ELSE config.refresh_token
             /\ file'.refresh_token = config'.refresh_token
       /\ (Calls(c) /\ tasks'[c].pc = "awaiting") =>
             tasks'[c].req.refresh_token = config.refresh_token]_vars

C6_Witness ==
  \E c \in Callers :
    /\ Awaiting(c)
    /\ tasks[c].req.refresh_token = config.refresh_token
    /\ origin.refresh_token > 0
    /\ config.refresh_token = Str(origin.refresh_token)
    /\ file.refresh_token = config.refresh_token

\* C7: whenever no refresh is in progress the record in memory equals the
\* record in the credential file.
C7_MemoryEqualsFile ==
  (\A c \in Callers : ~Awaiting(c)) => file = JSONstringify(config)

\* C8: in every state access_token and expires_at come from the same source,
\* the load or one refresh response.
C8_TokenAndExpiryTogether ==
  /\ origin.access_token = origin.expires_at
  /\ origin.access_token = 0 =>
       config.access_token = Str(0) /\ config.expires_at \in InitExpiries
  /\ origin.access_token > 0 =>
       config.access_token \in {Str(origin.access_token), Undefined}

C8_Witness ==
  /\ origin.access_token > 0
  /\ \E c \in Callers : Awaiting(c) /\ tasks[c].req.id # origin.access_token

\* C9: a failure is not cached: a call made while the token is expired or
\* within the buffer sends a refresh request whatever happened before, a
\* refresh that succeeds hands its token to the call, and the manager is
\* never in a state from which no later call attempts a refresh.
C9_FailureNotCached ==
  /\ [][\A c \in Callers :
          /\ (Calls(c) /\ DueForRefresh(config, now)) =>
                tasks'[c].pc = "awaiting" /\ nreq' = nreq + 1
          /\ (Completes(c) /\ Issued(tasks'[c].resp) /\ tasks'[c].saved) =>
                tasks'[c].result = Returned(tasks'[c].resp.access_token)]_vars
  /\ [](isExpired(config, Horizon))

\* C10: when the state the callback delivered differs from the generated
\* state, no token exchange is issued, no file is written and the flow ends
\* with the state-mismatch error; an exchange or a write only ever follows a
\* callback whose state is the generated one.
C10_CsrfStateCheck ==
  /\ (runner.promise.status = "resolved" /\ runner.promise.state # runner.state) =>
       /\ runner.exchanges = 0
       /\ runner.writes = 0
       /\ file = NoFile
       /\ runner.exitCode = 1
       /\ runner.stderr = StateMismatchMsg
  /\ (runner.exchanges > 0 \/ runner.writes > 0 \/ file # NoFile) =>
       /\ runner.promise.status = "resolved"
       /\ runner.promise.state = runner.state
       /\ runner.exchange.code = runner.promise.code

C10_Witness ==
  /\ runner.promise.status = "resolved"
  /\ runner.promise.state # runner.state
  /\ runner.pc = "exited"

\* C11: in the setup script the callback listener is listening on the
\* callback port before the authorization URL is shown to the operator.
C11_ListenerBeforeUrl ==
  \A i \in 1..Len(runner.events) :
     runner.events[i] = "url_shown" =>
        \E j \in 1..(i - 1) : runner.events[j] = "listening"

\* requests the listener's handler has run for
Handled(r) == Len(r.responses) + r.unanswered

\* C12: the listener is one-shot: it serves exactly one request and then
\* stops accepting; its result is settled once, a later request neither
\* changes the result nor causes a second token exchange, and at most one
\* token-exchange request is issued per invocation.
C12_OneShotListener ==
  /\ [](/\ Handled(runner) <= 1
        /\ (Handled(runner) = 1 => runner.server # "listening")
        /\ runner.exchanges <= 1)
  /\ [][runner.promise.status # "pending" =>
          /\ runner'.promise = runner.promise
          /\ runner'.exchanges = runner.exchanges]_vars

Rejected(msg) == [status |-> "rejected", code |-> "", state |-> "", error |-> msg]

\* C13: the result of startCallbackServer is decided by the first request
\* that reaches /callback: with an error parameter it is the
\* authorization-denied error naming that error, also when code and state
\* are there; otherwise with both code and state it resolves with exactly
\* those two; otherwise it is the malformed-callback error. A port that
\* cannot be bound gives the bind error. Before any of these the result is
\* pending, and only one of them occurs.
C13_CallbackOutcome ==
  LET p == runner.promise
      f == runner.first
  IN /\ runner.server = "error" => ~f.seen /\ p = Rejected(BindErrorMsg)
     /\ (runner.server # "error" /\ ~f.seen) => p.status = "pending"
     /\ (f.seen /\ f.error # "") => p = Rejected(AuthFailedMsg(f.error))
     /\ (f.seen /\ f.error = "" /\ f.code # "" /\ f.state # "") =>
           p = [status |-> "resolved", code |-> f.code, state |-> f.state,
                error |-> ""]
     /\ (f.seen /\ f.error = "" /\ (f.code = "" \/ f.state = "")) =>
           p = Rejected(MissingParamMsg)

C13_Witness ==
  /\ runner.first.seen
  /\ runner.first.error # ""
  /\ runner.first.code # ""
  /\ runner.first.state # ""
  /\ runner.promise.status = "rejected"
  /\ Len(runner.responses) = 1

\* C14: the setup script writes the credential file at most once, and only
\* after a callback with code and state whose state matched and a token
\* exchange that succeeded; on every other path (error callback, malformed
\* callback, bind error, state mismatch, failed exchange) no file is written
\* and the process ends with a non-zero status.
C14_WriteOnlyOnSuccess ==
  /\ runner.writes <= 1
  /\ (runner.writes = 0 <=> file = NoFile)
  /\ runner.writes > 0 =>
       /\ runner.promise.status = "resolved"
       /\ runner.promise.code # ""
       /\ runner.promise.state = runner.state
       /\ runner.exchanges = 1
       /\ runner.answer = "ok"
  /\ (\/ runner.promise.status = "rejected"
      \/ (runner.promise.status = "resolved"
             /\ runner.promise.state # runner.state)
      \/ runner.answer = "error") =>
       /\ runner.writes = 0
       /\ file = NoFile
       /\ runner.pc = "exited"
       /\ runner.exitCode > 0
  /\ runner.exitCode = 0 => runner.writes = 1

C14_Witness ==
  /\ runner.answer = "error"
  /\ runner.promise.status = "resolved"
  /\ runner.pc = "exited"
  /\ file = NoFile

\* C15: when the service URL, the client id or the client secret is absent
\* at start, the flow fails with the configuration-missing error and a
\* non-zero status without starting the listener, issuing a token exchange
\* or writing the credential file.
C15_MissingEnvIsFatal ==
  ((\E v \in {"REVIEWBOARD_URL", "REVIEWBOARD_CLIENT_ID",
               "REVIEWBOARD_CLIENT_SECRET"} : runner.env[v] = "")
     /\ runner.pc # "init") =>
     /\ runner.pc = "exited"
     /\ runner.exitCode > 0
     /\ runner.stderr = MissingEnvMsg
     /\ runner.server = "none"
     /\ runner.events = <<>>
     /\ runner.accepted = 0
     /\ runner.exchanges = 0
     /\ runner.writes = 0
     /\ file = NoFile

C15_Witness ==
  /\ runner.env.REVIEWBOARD_URL # ""
  /\ runner.env.REVIEWBOARD_CLIENT_SECRET = ""
  /\ runner.pc = "exited"

Contains(s, t) ==
  \E i \in 1..(Len(s) - Len(t) + 1) : SubSeq(s, i, i + Len(t) - 1) = t

OAuthMode(s) == s.env.REVIEWBOARD_TOKEN = "" \/ s.env.REVIEWBOARD_URL = ""

\* C16: constructing the Token Manager when the credential file is absent
\* fails with the config-not-found error, whose text tells the operator to
\* run npm run oauth-setup; no Token Manager instance exists afterwards and
\* no network request is made.
C16_AbsentFileFailsConstruction ==
  (file = NoFile /\ srv.constructions > 0) =>
     /\ srv.rbClient = "null"
     /\ config = NoFile
     /\ srv.call = "idle"
     /\ srv.tmError = ConfigNotFoundMsg
     /\ Contains(srv.tmError, "not found")
     /\ Contains(srv.tmError, "npm run oauth-setup")
     /\ srv.result = [isError |-> TRUE, text |-> HandlerPrefix \o srv.tmError]
     /\ nreq = 0
     /\ srv.sent = 0
     /\ srv.header = NoHeader

C16_Witness ==
  /\ file = NoFile
  /\ srv.constructions = 2
  /\ srv.result.isError

\* a record with the token fields the Token Manager works with
ValidRecord(cfg) ==
  /\ cfg.access_token.k = "string"
  /\ cfg.refresh_token.k = "string"
  /\ cfg.expires_at.k = "number"

\* C17: constructing the Token Manager fails with a config-parse error
\* whenever the credential file exists but does not hold a valid record
\* (not parseable, or parseable without access_token, refresh_token or a
\* numeric expires_at); the manager is never loaded with an invalid record.
C17_InvalidFileFailsConstruction ==
  [][/\ (/\ srv'.constructions > srv.constructions
         /\ existsSync(file)
         /\ (file = NotJSON \/ ~ValidRecord(loadConfig(file)))) =>
           /\ srv'.rbClient = "null"
           /\ srv'.tmError \notin {"", ConfigNotFoundMsg}
           /\ srv'.result.isError
     /\ (srv.rbClient = "null" /\ srv'.rbClient = "oauth") =>
           ValidRecord(config')]_vars

\* C18: in OAuth2 mode with the credential file absent or not parseable the
\* failure is fatal at startup: the server process does not reach the
\* running state in which it accepts tool calls.
C18_FatalAtStartup ==
  (OAuthMode(srv) /\ (file = NoFile \/ file = NotJSON)) => srv.pc # "running"

\* C19: a failed API call or a failed refresh during a tool invocation is
\* reported as a structured failure (isError with a message) and never ends
\* the server process; after failures the process still takes tool calls,
\* and a call whose refresh and API request succeed returns a normal result.
C19_FailuresAreReported ==
  /\ srv.pc \in {"starting", "running"}
  /\ srv.exitCode = -1
  /\ (srv.call = "idle" /\ srv.refresh = "threw") =>
        /\ srv.result.isError
        /\ Contains(srv.result.text, RefreshFailedMsg)
  /\ (srv.call = "idle" /\ srv.api = "failed") =>
        /\ srv.result.isError
        /\ Contains(srv.result.text, ApiErrorMsg)
  /\ (srv.call = "idle" /\ srv.api = "ok") =>
        srv.result = [isError |-> FALSE, text |-> "result"]
  /\ (srv.failures > 0 /\ srv.call = "idle" /\ srv.ncalls < MaxToolCalls) =>
        ENABLED ToolCall

C19_Witness ==
  /\ srv.failures > 0
  /\ srv.call = "idle"
  /\ srv.refresh = "ok"
  /\ srv.api = "ok"
  /\ ~srv.result.isError

\* C20 as stated: when getValidAccessToken() fails while a request is being
\* prepared, the request is never sent and the caller of the gateway
\* operation receives the same error the Token Manager produced.
C20_AsStated ==
  srv.refresh = "threw" =>
     /\ srv.sent = 0
     /\ srv.gwError = srv.tmError

\* C20: when getValidAccessToken() fails while a request is being prepared,
\* the request is never sent, and the caller of the gateway operation
\* receives a new error whose message is the operation's "Failed to ..."
\* prefix followed by the message of the Token Manager's error.
C20_TokenFailureBlocksRequest ==
  srv.refresh = "threw" =>
     /\ srv.sent = 0
     /\ srv.call = "idle"
     /\ srv.tmError = RefreshFailedMsg
     /\ srv.gwError = GatewayPrefix \o srv.tmError
     /\ srv.result = [isError |-> TRUE, text |-> HandlerPrefix \o srv.gwError]

C20_Witness ==
  /\ srv.refresh = "threw"
  /\ srv.rbClient = "oauth"
  /\ srv.ncalls = 2
  /\ nreq = 2

\* C21: in OAuth2 mode every outgoing API request consults the Token Manager
\* exactly once, just before it is sent, and carries Bearer t with t the
\* token that consultation returned, which is the token held at that time;
\* the header is never taken from an earlier request.
C21_FreshBearerPerRequest ==
  /\ [](srv.rbClient = "oauth" =>
          /\ srv.call # "idle" => srv.consults = 1
          /\ srv.sent <= srv.consults
          /\ srv.sent > 0 =>
                /\ srv.sent = 1
                /\ srv.consults = 1
                /\ srv.header = [scheme |-> "Bearer", token |-> srv.token]
                /\ srv.token = config.access_token)
  /\ [][(srv.rbClient = "oauth" /\ srv'.sent > srv.sent) =>
          /\ srv'.consults = 1
          /\ srv'.header = [scheme |-> "Bearer", token |-> config'.access_token]]_vars

C21_Witness ==
  /\ srv.rbClient = "oauth"
  /\ srv.ncalls = 2
  /\ srv.refresh = "ok"
  /\ srv.sent = 1
  /\ srv.header.token # Str(0)

Registered(j) == {j.instances[i].key : i \in 1..Len(j.instances)}

\* C23: a lookup of a name whose lowercase form is not in the registry fails
\* with the unknown-instance error, whose message lists every registered
\* instance name; no HTTP client is built, no HTTP request is sent, and the
\* registry and the client cache stay as they were.
C23_UnknownInstance ==
  [][(jira'.ops > jira.ops /\ toLowerCase(jira'.name) \notin Registered(jira)) =>
       /\ jira'.error.kind = "UnknownInstance"
       /\ jira'.error.instance = jira'.name
       /\ {jira'.error.available[i] : i \in 1..Len(jira'.error.available)}
            = Registered(jira)
       /\ jira'.found = NoClient
       /\ jira'.created = jira.created
       /\ jira'.clients = jira.clients
       /\ jira'.instances = jira.instances
       /\ jira'.sent = 0
       /\ jira'.pending = ""]_vars

C23_Witness ==
  /\ jira.error.kind = "UnknownInstance"
  /\ Len(jira.error.available) = 2
  /\ Len(jira.clients) = 1

\* C24: instance names resolve whatever their casing and clients are cached
\* lazily: each registered instance has its client built at most once, on
\* first use; every later lookup under any casing returns that client; the
\* cache holds only keys of the registry; the registry never changes.
C24_LazyClientCache ==
  /\ [](/\ \A i \in 1..Len(jira.clients) :
             /\ jira.clients[i].key \in Registered(jira)
             /\ \A k \in 1..Len(jira.clients) :
                  jira.clients[k].key = jira.clients[i].key => k = i
        /\ jira.created = Len(jira.clients)
        /\ \A k \in Registered(jira) : toLowerCase(k) = k)
  /\ [][/\ jira'.instances = jira.instances
        /\ \A i \in 1..Len(jira.clients) : jira'.clients[i] = jira.clients[i]
        /\ (jira' # jira /\ jira'.lookups > 0
              /\ toLowerCase(jira'.name) \in Registered(jira)
              /\ (jira'.ops > jira.ops \/ jira'.lookups > jira.lookups)) =>
             /\ jira'.error.kind # "UnknownInstance"
             /\ MapHas(jira'.clients, toLowerCase(jira'.name))
             /\ jira'.found = MapGet(jira'.clients, toLowerCase(jira'.name))
             /\ MapHas(jira.clients, toLowerCase(jira'.name)) =>
                  /\ jira'.created = jira.created
                  /\ jira'.found = MapGet(jira.clients, toLowerCase(jira'.name))
             /\ ~MapHas(jira.clients, toLowerCase(jira'.name)) =>
                  jira'.created = jira.created + 1]_vars

C24_Witness ==
  /\ jira.ops = 2
  /\ jira.lookups = 2
  /\ jira.name = <<"A">>
  /\ jira.found.id = 1
  /\ jira.created = 1

\* C28: for every registered instance and every configured base URL, the
\* flavor derived when its client is built and the flavor createIssue uses
\* agree: the description is sent in Atlassian Document Format exactly when
\* the client was built with API version 3, as plain text exactly when it
\* was built with API version 2.
C28_FlavorAgrees ==
  jira.req.op = "createIssue" =>
     /\ jira.req.version \in {"2", "3"}
     /\ jira.req.body = "adf" <=> jira.req.version = "3"
     /\ jira.req.body = "plain" <=> jira.req.version = "2"

\* C25: every HTTP request the callback listener receives while it is
\* listening is answered with an HTML response that states the outcome
\* (success, authorization failed or invalid request), whatever its path
\* and parameters.
C25_EveryRequestAnswered ==
  /\ runner.unanswered = 0
  /\ \A i \in 1..Len(runner.responses) :
       runner.responses[i].body \in
         {"Authorization Successful!", "Authorization Failed", "Invalid Request"}

\* C26: after a successful refresh whose response carries expires_in = E
\* seconds, the held and the persisted expires_at both equal the time the
\* response was processed + E * 1000 ms, the persisted access_token is the
\* one of that response, and the call returns it.
C26_ExpiryFromExpiresIn ==
  [][\A c \in Callers :
       (Completes(c) /\ tasks'[c].saved
          /\ tasks'[c].resp.expires_in.k = "number") =>
            /\ config'.expires_at = Num(now + tasks'[c].resp.expires_in.v * 1000)
            /\ file'.expires_at = config'.expires_at
            /\ file'.access_token = tasks'[c].resp.access_token
            /\ config'.access_token = tasks'[c].resp.access_token
            /\ tasks'[c].result = Returned(tasks'[c].resp.access_token)]_vars

C26_Witness ==
  /\ now = T0
  /\ file.expires_at = Num(T0 + LongLife * 1000)
  /\ \E c \in Callers :
       /\ tasks[c].pc = "done"
       /\ tasks[c].saved
       /\ tasks[c].resp.expires_in = Num(LongLife)
       /\ tasks[c].result = Returned(file.access_token)

Terminated(r) == r.pc \in {"exited", "ended", "killed"}

\* C27 as stated: when no request ever arrives at /callback the setup script
\* does not wait forever; the flow terminates.
C27_AsStated == <>(runner.first.seen \/ Terminated(runner))

\* C27: the script arms no timeout: while no request has reached /callback
\* and the port is bound or being bound, only a manual interrupt (or the
\* bind error) ends the flow; an interrupt ends the process at once with a
\* non-zero status, tears the listener down and writes nothing, so no
\* credential file exists when it comes before any callback.
C27_OnlyInterruptEndsWait ==
  /\ [][/\ (runner'.pc = "killed" /\ runner.pc # "killed") =>
             /\ file' = file
             /\ runner'.writes = runner.writes
             /\ runner'.exchanges = runner.exchanges
             /\ runner'.server \notin {"binding", "listening"}
             /\ runner'.exitCode > 0
        /\ (/\ runner.server \in {"binding", "listening"}
            /\ ~runner'.first.seen
            /\ ~Terminated(runner)
            /\ Terminated(runner')) =>
             (runner'.pc = "killed" \/ runner'.server = "error")]_vars
  /\ []((runner.pc = "killed" /\ ~runner.first.seen) => file = NoFile)

C27_Witness ==
  /\ runner.pc = "killed"
  /\ ~runner.first.seen
  /\ runner.unanswered = 1
  /\ \E i \in 1..Len(runner.events) : runner.events[i] = "listening"
  /\ file = NoFile

\* the fields a refresh has no business with
FrameFields == {"token_type", "client_id", "client_secret", "reviewboard_url"}

\* C29: a refresh changes only access_token, expires_at and, when the
\* response supplies one, refresh_token: token_type, client_id,
\* client_secret and reviewboard_url are the same before and after every
\* getValidAccessToken() call, in memory and in the credential file, and
\* every refresh request carries the client_id, client_secret and base URL
\* loaded at construction.
C29_RefreshFrame ==
  /\ [][\A f \in FrameFields : config'[f] = config[f] /\ file'[f] = file[f]]_vars
  /\ [](/\ \A f \in FrameFields : file[f] = JSONstringify(config)[f]
        /\ \A c \in Callers :
             tasks[c].req.id # 0 =>
               /\ tasks[c].req.client_id = config.client_id
               /\ tasks[c].req.client_secret = config.client_secret
               /\ tasks[c].req.url = config.reviewboard_url \o "/oauth2/token/"
               /\ tasks[c].req.grant_type = "refresh_token")

C29_Witness ==
  /\ file.access_token # Str(0)
  /\ file.token_type = Str(0)
  /\ file.client_id = "cid"
  /\ \E c \in Callers : tasks[c].pc = "done" /\ tasks[c].saved

\* C30: getClient() builds the client lazily on the first tool call; a
\* failed construction leaves the singleton unset, so that every later tool
\* call attempts the construction again; once a construction has succeeded
\* the same client is returned for all later calls, so that the credential
\* file is loaded successfully at most once per process.
C30_LazySingleton ==
  /\ [][/\ (srv'.ncalls > srv.ncalls /\ srv.rbClient = "null"
              /\ srv'.rbClient # "token") =>
               srv'.constructions = srv.constructions + 1
        /\ srv.rbClient # "null" =>
               /\ srv'.rbClient = srv.rbClient
               /\ srv'.constructions = srv.constructions
               /\ srv'.loads = srv.loads
        /\ srv'.rbClient # srv.rbClient => srv'.ncalls > srv.ncalls]_vars
  /\ [](srv.ncalls = 0 => (srv.rbClient = "null" /\ srv.constructions = 0))
  /\ [](srv.loads <= 1)
====
